---- MODULE Spec2Model ----
(***************************************************************************)
(* Streaming relay of the chat backend: message creation, the callback     *)
(* ingest of the generation service, the chunk store kept in Redis, the    *)
(* Celery status task and the live (WebSocket) connections.                *)
(*                                                                         *)
(* Text is a sequence of Unicode code points; the chunk store holds the    *)
(* UTF-8 bytes the Redis client writes.                                    *)
(***************************************************************************)
EXTENDS Integers, Sequences, FiniteSets, TLC

\* ------------------------------------------------------------------ bounds
MaxRequests == 1
MaxCallbacks == 2
MaxTasks == 1
MaxExpiries == 1
MaxConns == 2
MaxStreamRequests == 1
MaxFaults == 1
MaxViewers == 1
MaxFrames == 1
MaxBreaks == 1
MaxBroadcasts == 1
MaxTicks == 2
MaxTimeouts == 2
MaxPings == 1
MaxCancels == 1

\* ------------------------------------------------------------ enumerations
MessageType == {"user", "ai", "system"}

MessageStatus == {"pending", "processing", "completed", "failed"}

ChatIds == {"c1", "c2"}

\* The owner of every chat of ChatIds.
ChatOwner == [c \in ChatIds |-> "u1"]

\* File rows of the persistence store: f1 has extracted content, f2 has none.
\* The User rows and their is_admin flag; "u1" owns every chat.
UserIds == {"u1", "u2", "adm"}

is_admin == [u \in UserIds |-> u = "adm"]

\* Chat.suggestions
ChatSuggestions == [c \in ChatIds |-> IF c = "c1" THEN <<"more">> ELSE <<>>]

\* The chat ids of connection requests: "c0" is no chat.
ChatRequestIds == ChatIds \cup {"c0"}

\* The tokens of connection requests: two that fail validation (one of them
\* naming the owner), one without "sub", and valid ones of the owner, of another
\* user, of an admin and of a user that does not exist.
TokenInputs ==
    { [valid |-> FALSE, sub |-> ""], [valid |-> FALSE, sub |-> "u1"],
      [valid |-> TRUE, sub |-> ""],
      [valid |-> TRUE, sub |-> "u1"], [valid |-> TRUE, sub |-> "u2"],
      [valid |-> TRUE, sub |-> "adm"], [valid |-> TRUE, sub |-> "u9"] }

Files == [f1 |-> [content |-> <<102>>], f2 |-> [content |-> <<>>]]

FileIdInputs == {<<>>, <<"f1">>, <<"f2", "f0">>}

\* ------------------------------------------------------------------- text
RECURSIVE Concat(_)
\* Concat(<<s1, ..., sn>>) = s1 \o ... \o sn
Concat(ss) == IF ss = <<>> THEN <<>> ELSE Head(ss) \o Concat(Tail(ss))

IsPrefix(s, t) == Len(s) <= Len(t) /\ SubSeq(t, 1, Len(s)) = s

Contains(t, k) == \E i \in 0..(Len(t) - Len(k)) : SubSeq(t, i + 1, i + Len(k)) = k

\* str.lower() on the code points the inputs use: A-Z and the Cyrillic capitals.
LowerCp(cp) == IF (cp >= 65 /\ cp <= 90) \/ (cp >= 1040 /\ cp <= 1071) THEN cp + 32 ELSE cp

Lower(t) == [i \in 1..Len(t) |-> LowerCp(t[i])]

\* UTF-8 as the Redis client encodes a str argument (code points below 2048).
Utf8EncodeCp(cp) == IF cp < 128 THEN <<cp>> ELSE <<192 + (cp \div 64), 128 + (cp % 64)>>

Utf8Encode(t) == Concat([i \in 1..Len(t) |-> Utf8EncodeCp(t[i])])

RECURSIVE Utf8Decode(_)
\* bytes.decode('utf-8') of a well-formed byte string.
Utf8Decode(b) ==
    IF b = <<>> THEN <<>>
    ELSE IF b[1] < 128 THEN <<b[1]>> \o Utf8Decode(Tail(b))
    ELSE <<(b[1] - 192) * 64 + (b[2] - 128)>> \o Utf8Decode(Tail(Tail(b)))

\* "", "Hi", "Оператор" and "?помощник"
ContentInputs ==
    { <<>>, <<72, 105>>, <<1054, 1087, 1077, 1088, 1072, 1090, 1086, 1088>>,
      <<63, 1087, 1086, 1084, 1086, 1097, 1085, 1080, 1082>> }

support_keywords ==
    { <<1086, 1087, 1077, 1088, 1072, 1090, 1086, 1088>>,
      <<1087, 1086, 1076, 1076, 1077, 1088, 1078, 1082>>,
      <<1082, 1086, 1085, 1089, 1091, 1083, 1100, 1090, 1072, 1085, 1090>>,
      <<1087, 1086, 1084, 1086, 1097, 1085, 1080, 1082>>,
      <<1089, 1087, 1077, 1094, 1080, 1072, 1083, 1080, 1089, 1090>> }

is_support_request(content) ==
    content # <<>> /\ \E k \in support_keywords : Contains(Lower(content), k)

\* "Запрос" : the text of the system message answering a support request.
system_content == <<1047, 1072, 1087, 1088, 1086, 1089>>

\* "Sorry" : the placeholder content of a failed generated message.
FailedPlaceholder == <<83, 111, 114, 114, 121>>

\* Callback payload inputs: content fragments "a" and "П", citation lists.
FragmentInputs == {<<97>>, <<1055>>}

\* A citation of the payload: id and page are <<>> when the key is absent.
SourcesInputs == {<<>>, <<[id |-> <<1>>, source |-> "doc", title |-> "", page |-> <<3>>]>>}

\* Citation lists of final callbacks: none, the list above, and a list of a
\* citation without page and a citation without id.
CitationInputs ==
    SourcesInputs \cup
    { << [id |-> <<2>>, source |-> "ref", title |-> "", page |-> <<>>],
         [id |-> <<>>, source |-> "web", title |-> "", page |-> <<5>>] >> }

\* The "suggestions" of a callback body: absent, and one suggestion.
SuggestionInputs == {<<>>, <<"next">>}

Conns == 1..MaxConns

\* The connections of the specifications that follow single sessions.
Viewers == 1..MaxViewers

OwnerToken == [valid |-> TRUE, sub |-> "u1"]

AdminToken == [valid |-> TRUE, sub |-> "adm"]

CbIds == 1..MaxCallbacks

MsgIds == 1..(2 * MaxRequests)

\* The message ids callbacks and stream requests name: the rows of the first request.
TargetIds == {1, 2}

\* ------------------------------------------------------------------ state
VARIABLES
    messages,           \* persistence store: the Message rows, row i has id i
    http_log,           \* create_message exchanges handled so far: request and response
    ai_calls,           \* number of HTTP requests that reached the generation service
    tasks_run,          \* number of Celery task messages the worker has executed
    redis,              \* chunk store: per message id the entry "message:{id}"
    cb,                 \* the message_callback requests: position and locals of each
    ws,                 \* the live connections: position and locals of each handler
    active_connections, \* connection registry: key -> list of connections
    ws_out,             \* per connection, the frames sent to the client
    last_activity,      \* connection registry: key -> "last_activity" of the entry
    loop_time,          \* asyncio.get_event_loop().time()
    arrived,            \* history: fragments of the accepted callbacks, in arrival order
    chunk_log,          \* history: fragments appended to the live entry, in append order
    last_read,          \* history: the last content read from the live entry
    final_writes,       \* history: number of finalizing writes per message
    first_final,        \* history: the row as the first finalizing write left it
    expiries,           \* history: number of entries that expired
    store_faults        \* history: number of chunk store operations that failed

dbVars == <<messages>>
createVars == <<http_log, ai_calls>>
regVars == <<active_connections, last_activity, loop_time>>
wsVars == <<ws, regVars, ws_out>>
histVars == <<arrived, chunk_log, last_read, final_writes, first_final, expiries, store_faults>>
vars == <<messages, http_log, ai_calls, tasks_run, redis, cb, ws, active_connections,
          ws_out, last_activity, loop_time, arrived, chunk_log, last_read, final_writes,
          first_final, expiries, store_faults>>

MsgRow(chat, type, status, content, files) ==
    [chat_id |-> chat, message_type |-> type, status |-> status,
     content |-> content, files |-> files, sources |-> <<>>]

\* ----------------------------------------------------------- chat_service
create_system_message(rows, chat, content) ==
    Append(rows, MsgRow(chat, "system", "completed", content, <<>>))

\* The files of file_ids that exist are attached, the others skipped.
create_user_message(rows, chat, content, file_ids) ==
    Append(rows, MsgRow(chat, "user", "completed", content,
                        SelectSeq(file_ids, LAMBDA f : f \in DOMAIN Files)))

create_ai_message(rows, chat) ==
    Append(rows, MsgRow(chat, "ai", "pending", <<>>, <<>>))

\* ------------------------------------------------------------- ai_service
\* How the generation service would answer a request that reaches it.
AiServiceModes == {"http_200", "http_200_bad_json", "http_500", "connection_error", "timeout"}

\* The parameters send_to_ai_service declares.
send_to_ai_service_params == {"message_content", "conversation_history", "callback_url"}

\* The keyword arguments create_message passes.
create_message_call_kwargs ==
    {"message_content", "conversation_history", "callback_url", "file_contents"}

\* The call of send_to_ai_service with keyword arguments kwargs while the service
\* is in mode: a keyword the function does not declare raises TypeError before the
\* body runs; otherwise one HTTP POST is made and the function returns a bool,
\* True on a 200 answer with a JSON body.
send_to_ai_service(kwargs, mode) ==
    IF ~(kwargs \subseteq send_to_ai_service_params)
    THEN [raised |-> "TypeError", posts |-> 0, type |-> "none", value |-> FALSE]
    ELSE [raised |-> "none", posts |-> 1, type |-> "bool", value |-> (mode = "http_200")]

\* chat_service.update_ai_message without sources.
update_ai_message(rows, id, content, status) ==
    [rows EXCEPT ![id].content = content, ![id].status = status]

\* ------------------------------------------------------------ create_message
\* One create_message exchange: the request, the response and the status task
\* the handler published.
Exchange(content, file_ids, mode, code, returned, ai_message, published) ==
    [content |-> content, files |-> file_ids, mode |-> mode, code |-> code,
     returned |-> returned, ai_message |-> ai_message, published |-> published]

\* POST /chats/{chat_id}/messages, one request handled from start to response.
\* An exception of the call of send_to_ai_service, or of ai_response.get on a
\* value that is not a dict, is answered 500 with the two rows committed.
create_message(chat, content, file_ids, mode) ==
    /\ Len(http_log) < MaxRequests
    /\ IF is_support_request(content)
       THEN /\ messages' = create_system_message(messages, chat, system_content)
            /\ http_log' = Append(http_log,
                   Exchange(content, file_ids, mode, 200, Len(messages) + 1, 0, "none"))
            /\ UNCHANGED ai_calls
       ELSE LET user_id == Len(messages) + 1
                ai_id == Len(messages) + 2
                created == create_ai_message(
                               create_user_message(messages, chat, content, file_ids), chat)
                ai_response == send_to_ai_service(create_message_call_kwargs, mode)
            IN  /\ ai_calls' = ai_calls + ai_response.posts
                /\ IF ai_response.raised # "none" \/ ai_response.type # "dict"
                   THEN /\ messages' = created
                        /\ http_log' = Append(http_log,
                               Exchange(content, file_ids, mode, 500, 0, ai_id, "none"))
                   ELSE IF ai_response.value
                   THEN /\ messages' = created
                        /\ http_log' = Append(http_log,
                               Exchange(content, file_ids, mode, 200, user_id, ai_id,
                                        "processing"))
                   ELSE /\ messages' = update_ai_message(created, ai_id,
                                                         FailedPlaceholder, "failed")
                        /\ http_log' = Append(http_log,
                               Exchange(content, file_ids, mode, 200, user_id, ai_id,
                                        "failed"))
    /\ UNCHANGED <<tasks_run, redis, cb, wsVars, histVars>>

\* ------------------------------------------------------- Celery worker task
\* update_message_status(message_id, status), run by the worker for one task
\* message taken from the broker; the task message is an input of the worker.
update_message_status(id, status) ==
    /\ tasks_run < MaxTasks
    /\ tasks_run' = tasks_run + 1
    /\ IF id \in 1..Len(messages)
       THEN messages' = [messages EXCEPT ![id].status = status]
       ELSE UNCHANGED messages
    /\ UNCHANGED <<createVars, redis, cb, wsVars, histVars>>

\* -------------------------------------------------------------- chunk store
NoEntry == [present |-> FALSE, value |-> <<>>, ttl |-> FALSE]

\* A store write that replaces the value instead of extending it.
RedisAppend_Overwrite(entry, chunk) ==
    [present |-> TRUE, value |-> Utf8Encode(chunk), ttl |-> entry.ttl]

\* APPEND key chunk: creates the entry when absent, keeps its time to live.
RedisAppend(entry, chunk) ==
    [present |-> TRUE, value |-> entry.value \o Utf8Encode(chunk), ttl |-> entry.ttl]

\* EXPIRE key 3600: no effect on an absent entry.
RedisExpire(entry) == IF entry.present THEN [entry EXCEPT !.ttl = TRUE] ELSE entry

\* get_message_content_from_redis on a GET that reached the store.
RedisRead(entry) ==
    IF entry.present /\ entry.value # <<>> THEN Utf8Decode(entry.value) ELSE <<>>

\* The time to live of the entry of message id runs out.
RedisKeyExpires(id) ==
    /\ expiries < MaxExpiries
    /\ redis[id].present /\ redis[id].ttl
    /\ redis' = [redis EXCEPT ![id] = NoEntry]
    /\ expiries' = expiries + 1
    /\ chunk_log' = [chunk_log EXCEPT ![id] = <<>>]
    /\ last_read' = [last_read EXCEPT ![id] = <<>>]
    /\ UNCHANGED <<dbVars, createVars, tasks_run, cb, wsVars, arrived, final_writes,
                   first_final, store_faults>>

\* ------------------------------------------------------------ registry, relay
ConnKey(chat, user) == <<chat, user>>

\* websocket.client_state == CONNECTED: the state is CONNECTING until accept and
\* DISCONNECTED once the disconnect of the client was received.
is_websocket_connected(c) == ws[c].state = "connected"

\* send_json raises: the transport is broken, or the server has sent its close.
SendRaises(c) == ws[c].broken \/ ws[c].close_code # 0

\* The copy of the key's connection list broadcast_message iterates over.
BroadcastSnapshot(key) ==
    IF key \in DOMAIN active_connections THEN active_connections[key] ELSE <<>>

\* An event of a message sent to a client; keys the event does not carry are empty.
Frame(type, id, content, sources) ==
    [type |-> type, message_id |-> id, content |-> content, sources |-> sources,
     chat_id |-> "", suggestions |-> <<>>, timestamp |-> <<>>, error |-> ""]

\* JSON values of a "timestamp" key: null, a number, and the str of a number.
JsonNull == [as |-> "null", value |-> 0]

JsonNumber(n) == [as |-> "number", value |-> n]

JsonString(n) == [as |-> "string", value |-> n]

\* A control or error frame of the session handler; type is "" when the frame
\* has no "type" key, suggestions and timestamp are <<>> when the frame has no
\* such key and <<value>> when it has.
ControlFrame(type, chat, suggestions, timestamp, error) ==
    [type |-> type, message_id |-> 0, content |-> <<>>, sources |-> <<>>,
     chat_id |-> chat, suggestions |-> suggestions, timestamp |-> timestamp,
     error |-> error]

\* str(x)
Str(x) == [str |-> x]

\* broadcast_message_complete: the citation list put on the complete event.
ProcessedSources(sources_data) ==
    [k \in 1..Len(sources_data) |->
        [id |-> sources_data[k].id,
         title |-> IF sources_data[k].source # "" THEN sources_data[k].source
                   ELSE sources_data[k].title,
         content |-> sources_data[k].page,
         url |-> sources_data[k].id]]

\* message_callback: the Source rows created from the payload's citations, one
\* for each citation that has an id and a source name.
SourceRows(sources_data) ==
    LET kept == SelectSeq(sources_data, LAMBDA r : r.id # <<>> /\ r.source # "")
    IN  [k \in 1..Len(kept) |->
            [title |-> kept[k].source,
             content |-> IF kept[k].page # <<>> THEN <<Str(kept[k].page[1])>> ELSE <<>>,
             url |-> Str(kept[k].id[1])]]

\* broadcast_message calls send_json on connection c: its client_state is
\* CONNECTED, which a close sent by the server does not change.
SendAttempted(c) == is_websocket_connected(c)

\* One iteration of the loop of broadcast_message: the head of conns is sent the
\* frame when it is connected, and skipped otherwise; a send that raises is
\* caught and the loop goes on.
SendToHead(conns, frame) ==
    IF is_websocket_connected(Head(conns)) /\ ~SendRaises(Head(conns))
    THEN [ws_out EXCEPT ![Head(conns)] = Append(@, frame)]
    ELSE ws_out

\* ------------------------------------------------------------ message_callback
IdleCb ==
    [pc |-> "idle", chat |-> "c1", mid |-> 0, content |-> <<>>, is_final |-> FALSE,
     sources_data |-> <<>>, suggestions |-> <<>>, conns |-> <<>>,
     full_content |-> <<>>, code |-> 0, status_seen |-> "none"]

InFlight(i) == cb[i].pc \notin {"idle", "done"}

required_keys == {"chunk_id", "content", "is_final"}

\* The bodies that lack a required key, by the required keys they have.
IncompleteKeys == (SUBSET required_keys) \ {required_keys}

\* A check of the callback that does not look at the keys of the body.
CallbackCheck_IgnoresKeys(rows, chat, mid, keys) ==
    IF ~(mid \in 1..Len(rows) /\ rows[mid].chat_id = chat) THEN 404
    ELSE 0

\* The checks of message_callback on the rows of the persistence store: 404 when
\* no message mid exists under chat, 400 when a required key is missing in the
\* body, 0 when the callback is accepted.
CallbackCheck(rows, chat, mid, keys) ==
    IF ~(mid \in 1..Len(rows) /\ rows[mid].chat_id = chat) THEN 404
    ELSE IF ~(required_keys \subseteq keys) THEN 400
    ELSE 0

\* The request with a body of the given keys arrives: the message is looked up
\* (404), the body validated (400), and the APPEND of
\* save_message_chunk_to_redis is issued.
message_callback_start(i, chat, mid, keys, content, is_final, sources_data, suggestions) ==
    /\ cb[i].pc = "idle"
    /\ \A j \in CbIds : j < i => cb[j].pc # "idle"
    /\ LET code == CallbackCheck(messages, chat, mid, keys)
       IN  IF code # 0
           THEN /\ cb' = [cb EXCEPT ![i] = [IdleCb EXCEPT !.pc = "done", !.code = code]]
                /\ UNCHANGED arrived
           ELSE /\ cb' = [cb EXCEPT ![i] = [IdleCb EXCEPT !.pc = "append", !.chat = chat,
                                              !.mid = mid, !.content = content,
                                              !.is_final = is_final,
                                              !.sources_data = sources_data,
                                              !.suggestions = suggestions,
                                              !.status_seen = messages[mid].status]]
                /\ arrived' = [arrived EXCEPT ![mid] = Append(@, content)]
    /\ UNCHANGED <<dbVars, createVars, tasks_run, redis, wsVars, chunk_log, last_read,
                   final_writes, first_final, expiries, store_faults>>

\* save_message_chunk_to_redis: the APPEND reaches the store.
save_message_chunk_to_redis_append(i) ==
    /\ cb[i].pc = "append"
    /\ redis' = [redis EXCEPT ![cb[i].mid] = RedisAppend(@, cb[i].content)]
    /\ chunk_log' = [chunk_log EXCEPT ![cb[i].mid] = Append(@, cb[i].content)]
    /\ cb' = [cb EXCEPT ![i].pc = "expire"]
    /\ UNCHANGED <<dbVars, createVars, tasks_run, wsVars, arrived, last_read, final_writes,
                   first_final, expiries, store_faults>>

\* save_message_chunk_to_redis: the EXPIRE reaches the store.
save_message_chunk_to_redis_expire(i) ==
    /\ cb[i].pc = "expire"
    /\ redis' = [redis EXCEPT ![cb[i].mid] = RedisExpire(@)]
    /\ cb' = [cb EXCEPT ![i].pc = "chunk_begin"]
    /\ UNCHANGED <<dbVars, createVars, tasks_run, wsVars, histVars>>

\* A failing store operation that is raised to the callback: the request is
\* answered 500.
save_message_chunk_to_redis_fails_Raises(i) ==
    /\ cb[i].pc \in {"append", "expire"}
    /\ store_faults < MaxFaults
    /\ store_faults' = store_faults + 1
    /\ cb' = [cb EXCEPT ![i] = [IdleCb EXCEPT !.pc = "done", !.code = 500,
                                              !.mid = cb[i].mid,
                                              !.is_final = cb[i].is_final]]
    /\ UNCHANGED <<dbVars, createVars, tasks_run, redis, wsVars, arrived, chunk_log,
                   last_read, final_writes, first_final, expiries>>

\* save_message_chunk_to_redis: a store operation raises, the function logs and
\* returns False, and the callback goes on.
save_message_chunk_to_redis_fails(i) ==
    /\ cb[i].pc \in {"append", "expire"}
    /\ store_faults < MaxFaults
    /\ store_faults' = store_faults + 1
    /\ cb' = [cb EXCEPT ![i].pc = "chunk_begin"]
    /\ UNCHANGED <<dbVars, createVars, tasks_run, redis, wsVars, arrived, chunk_log,
                   last_read, final_writes, first_final, expiries>>

\* A broadcast that raises to the callback: the request is answered 500.
AfterBroadcast_Raises(c, finalized) ==
    [IdleCb EXCEPT !.pc = "done", !.code = 500, !.mid = c.mid, !.is_final = c.is_final]

\* Where a callback stands once a broadcast has no connection left to send to.
AfterBroadcast(c, finalized) ==
    IF c.is_final /\ ~finalized THEN [c EXCEPT !.pc = "read", !.conns = <<>>]
    ELSE [IdleCb EXCEPT !.pc = "done", !.code = 200, !.mid = c.mid, !.is_final = c.is_final]

\* broadcast_message, from the copy of the list to the first send.
BroadcastBegin(i, frame, sendingPc, finalized) ==
    LET snapshot == BroadcastSnapshot(ConnKey(cb[i].chat, ChatOwner[cb[i].chat]))
    IN  IF snapshot = <<>>
        THEN /\ cb' = [cb EXCEPT ![i] = AfterBroadcast(@, finalized)]
             /\ UNCHANGED ws_out
        ELSE /\ ws_out' = SendToHead(snapshot, frame)
             /\ cb' = [cb EXCEPT ![i].pc = sendingPc, ![i].conns = Tail(snapshot)]

\* A broadcast that gives up the rest of the copy when the send to a connection
\* raises.
BroadcastNext_StopsOnFailure(i, frame, finalized) ==
    IF cb[i].conns = <<>> \/ SendRaises(Head(cb[i].conns))
    THEN /\ cb' = [cb EXCEPT ![i] = AfterBroadcast(@, finalized)]
         /\ UNCHANGED ws_out
    ELSE /\ ws_out' = SendToHead(cb[i].conns, frame)
         /\ cb' = [cb EXCEPT ![i].conns = Tail(@)]

\* broadcast_message, resumed after a send: the next connection of the copy.
BroadcastNext(i, frame, finalized) ==
    IF cb[i].conns = <<>>
    THEN /\ cb' = [cb EXCEPT ![i] = AfterBroadcast(@, finalized)]
         /\ UNCHANGED ws_out
    ELSE /\ ws_out' = SendToHead(cb[i].conns, frame)
         /\ cb' = [cb EXCEPT ![i].conns = Tail(@)]

\* The chunk event: it carries the suggestions of the body when there are any.
ChunkFrame(i) ==
    [Frame("chunk", cb[i].mid, cb[i].content, <<>>)
        EXCEPT !.suggestions = IF cb[i].suggestions # <<>> THEN <<cb[i].suggestions>>
                               ELSE <<>>]

\* final_suggestions of message_callback: the suggestions of the Chat row.
final_suggestions(i) == ChatSuggestions[cb[i].chat]

\* The complete event: it carries final_suggestions when there are any.
CompleteFrame(i) ==
    [Frame("complete", cb[i].mid, <<>>, ProcessedSources(cb[i].sources_data))
        EXCEPT !.suggestions = IF final_suggestions(i) # <<>>
                               THEN <<final_suggestions(i)>> ELSE <<>>]

\* A relay that drops from the registry the connection it could not send to.
message_callback_chunk_begin_Prunes(i) ==
    /\ cb[i].pc = "chunk_begin"
    /\ BroadcastBegin(i, ChunkFrame(i), "chunk_send", FALSE)
    /\ LET key == ConnKey(cb[i].chat, ChatOwner[cb[i].chat])
           snapshot == BroadcastSnapshot(key)
           failed == snapshot # <<>>
                     /\ ~(is_websocket_connected(Head(snapshot)) /\ ~SendRaises(Head(snapshot)))
           rest == Tail(snapshot)
       IN  active_connections' =
               IF ~failed THEN active_connections
               ELSE IF rest = <<>>
               THEN [k \in DOMAIN active_connections \ {key} |-> active_connections[k]]
               ELSE [active_connections EXCEPT ![key] = rest]
    /\ last_activity' = [k \in DOMAIN active_connections' |-> last_activity[k]]
    /\ UNCHANGED <<dbVars, createVars, tasks_run, redis, ws, loop_time, histVars>>

\* The chunk event: save_message_chunk_to_redis has returned.
message_callback_chunk_begin(i) ==
    /\ cb[i].pc = "chunk_begin"
    /\ BroadcastBegin(i, ChunkFrame(i), "chunk_send", FALSE)
    /\ UNCHANGED <<dbVars, createVars, tasks_run, redis, ws, regVars, histVars>>

message_callback_chunk_send(i) ==
    /\ cb[i].pc = "chunk_send"
    /\ BroadcastNext(i, ChunkFrame(i), FALSE)
    /\ UNCHANGED <<dbVars, createVars, tasks_run, redis, ws, regVars, histVars>>

\* is_final: the GET of get_message_content_from_redis reaches the store.
message_callback_read(i) ==
    /\ cb[i].pc = "read"
    /\ cb' = [cb EXCEPT ![i].pc = "write", ![i].full_content = RedisRead(redis[cb[i].mid])]
    /\ last_read' = [last_read EXCEPT ![cb[i].mid] = RedisRead(redis[cb[i].mid])]
    /\ UNCHANGED <<dbVars, createVars, tasks_run, redis, wsVars, arrived, chunk_log,
                   final_writes, first_final, expiries, store_faults>>

\* is_final: the GET raises, get_message_content_from_redis returns "".
message_callback_read_fails(i) ==
    /\ cb[i].pc = "read"
    /\ store_faults < MaxFaults
    /\ store_faults' = store_faults + 1
    /\ cb' = [cb EXCEPT ![i].pc = "write", ![i].full_content = <<>>]
    /\ UNCHANGED <<dbVars, createVars, tasks_run, redis, wsVars, arrived, chunk_log,
                   last_read, final_writes, first_final, expiries>>

\* A finalizing write that leaves the status of the row as it is.
FinalizedRow_KeepsStatus(row, c) ==
    [row EXCEPT !.content = c.full_content,
                !.sources = IF c.sources_data # <<>> THEN SourceRows(c.sources_data)
                            ELSE row.sources]

\* A finalizing write that adds the citations to those of the row.
FinalizedRow_MergesSources(row, c) ==
    [row EXCEPT !.content = c.full_content,
                !.status = "completed",
                !.sources = row.sources \o SourceRows(c.sources_data)]

\* A finalizing write that stores the fragment of the final callback alone.
FinalizedRow_LastFragment(row, c) ==
    [row EXCEPT !.content = c.content,
                !.status = "completed",
                !.sources = IF c.sources_data # <<>> THEN SourceRows(c.sources_data)
                            ELSE row.sources]

\* The row after the finalizing write of callback c.
FinalizedRow(row, c) ==
    [row EXCEPT !.content = c.full_content,
                !.status = "completed",
                !.sources = IF c.sources_data # <<>> THEN SourceRows(c.sources_data)
                            ELSE row.sources]

\* is_final: content and status are written and committed, the citations
\* replaced, and the complete event is broadcast.
message_callback_finalize(i) ==
    /\ cb[i].pc = "write"
    /\ messages' = [messages EXCEPT ![cb[i].mid] = FinalizedRow(@, cb[i])]
    /\ final_writes' = [final_writes EXCEPT ![cb[i].mid] = @ + 1]
    /\ first_final' = IF final_writes[cb[i].mid] = 0
                      THEN [first_final EXCEPT ![cb[i].mid] = FinalizedRow(messages[cb[i].mid], cb[i])]
                      ELSE first_final
    /\ BroadcastBegin(i, CompleteFrame(i), "complete_send", TRUE)
    /\ UNCHANGED <<createVars, tasks_run, redis, ws, regVars, arrived,
                   chunk_log, last_read, expiries, store_faults>>

message_callback_complete_send(i) ==
    /\ cb[i].pc = "complete_send"
    /\ BroadcastNext(i, CompleteFrame(i), TRUE)
    /\ UNCHANGED <<dbVars, createVars, tasks_run, redis, ws, regVars, histVars>>

\* --------------------------------------------------------- live connections
NoFrame == [json |-> "none", type |-> "", message_id |-> 0, timestamp |-> <<>>]

IdleWs == [state |-> "none", pc |-> "none", chat |-> "c1", user |-> "",
           new_chat |-> FALSE, message_id |-> 0, content |-> <<>>,
           accepted |-> FALSE, close_code |-> 0, in_connection_ids |-> FALSE,
           broken |-> FALSE, ping_task |-> FALSE, reject |-> "none",
           token_valid |-> FALSE, frame |-> NoFrame,
           frames_read |-> 0, init_sends |-> 0, close_calls |-> 0, timeouts |-> 0,
           cancelled |-> FALSE]

\* An access check that admits every user that exists.
AccessCheck_AnyUser(token, chat) ==
    IF ~token.valid THEN "invalid_token"
    ELSE IF token.sub = "" THEN "no_user_id"
    ELSE IF chat \notin ChatIds THEN "no_chat"
    ELSE IF token.sub \notin UserIds THEN "denied"
    ELSE "ok"

\* validate_token and the checks of websocket_endpoint before accept.
AccessCheck(token, chat) ==
    IF ~token.valid THEN "invalid_token"
    ELSE IF token.sub = "" THEN "no_user_id"
    ELSE IF chat \notin ChatIds THEN "no_chat"
    ELSE IF token.sub \notin UserIds
            \/ (ChatOwner[chat] # token.sub /\ ~is_admin[token.sub]) THEN "denied"
    ELSE "ok"

\* A close without the record of the connections closed before.
safe_close_websocket_Unrecorded(w, code) ==
    IF w.state # "connected" THEN [w EXCEPT !.in_connection_ids = TRUE]
    ELSE IF w.broken
    THEN [w EXCEPT !.in_connection_ids = TRUE, !.close_calls = @ + 1]
    ELSE [w EXCEPT !.in_connection_ids = TRUE, !.close_calls = @ + 1,
                   !.close_code = code]

\* safe_close_websocket(websocket, code) on the connection record w: close_calls
\* counts the calls of websocket.close, which raises on a broken transport.
safe_close_websocket(w, code) ==
    IF w.in_connection_ids THEN w
    ELSE IF w.state # "connected" THEN [w EXCEPT !.in_connection_ids = TRUE]
    ELSE IF w.broken
    THEN [w EXCEPT !.in_connection_ids = TRUE, !.close_calls = @ + 1]
    ELSE [w EXCEPT !.in_connection_ids = TRUE, !.close_calls = @ + 1,
                   !.close_code = code]

\* The value safe_close_websocket(websocket, code) returns on the record w.
safe_close_websocket_result(w) ==
    ~w.in_connection_ids /\ w.state = "connected" /\ ~w.broken

\* safe_send_json(websocket, data): the frames of connection c afterwards.
safe_send_json(c, frame) ==
    IF is_websocket_connected(c) /\ ~SendRaises(c)
    THEN [ws_out EXCEPT ![c] = Append(@, frame)]
    ELSE ws_out

\* A registration that appends without looking for the connection in the list.
Register_Unguarded(reg, key, c) ==
    LET listed == IF key \in DOMAIN reg THEN reg[key] ELSE <<>>
    IN  [k \in DOMAIN reg \cup {key} |->
            IF k = key THEN Append(listed, c) ELSE reg[k]]

\* The registry after the connection c is registered under key.
Register(reg, key, c) ==
    LET listed == IF key \in DOMAIN reg THEN reg[key] ELSE <<>>
    IN  [k \in DOMAIN reg \cup {key} |->
            IF k = key
            THEN (IF \E n \in 1..Len(listed) : listed[n] = c THEN listed
                  ELSE Append(listed, c))
            ELSE reg[k]]

\* "last_activity" of the entries after the connection c is registered under
\* key: set when the entry is created and when c is appended to its list.
RegisterActivity(reg, la, key, c) ==
    [k \in DOMAIN la \cup {key} |->
        IF k = key /\ Register(reg, key, c) # reg THEN loop_time
        ELSE la[k]]

\* A receive that leaves "last_activity" as it was.
Touch_Keeps(la, key) == la

\* "last_activity" after a frame was received on a connection of key.
Touch(la, key) == IF key \in DOMAIN la THEN [la EXCEPT ![key] = loop_time] ELSE la

\* An unregister that leaves the key of the last connection in the registry.
Unregister_KeepsKey(reg, key, c) ==
    IF key \notin DOMAIN reg THEN reg
    ELSE [reg EXCEPT ![key] = SelectSeq(@, LAMBDA d : d # c)]

\* The registry after the finally block of the handler of connection c under key.
Unregister(reg, key, c) ==
    IF key \notin DOMAIN reg THEN reg
    ELSE LET rest == SelectSeq(reg[key], LAMBDA d : d # c)
         IN  IF rest = <<>>
             THEN [k \in DOMAIN reg \ {key} |-> reg[k]]
             ELSE [reg EXCEPT ![key] = rest]

\* "last_activity" of the entries that are left in the registry reg.
KeptActivity(reg, la) == [k \in DOMAIN reg |-> la[k]]

\* websocket_endpoint from the connection request to the call of accept: a
\* request that fails a check is closed with safe_close_websocket(1008) and the
\* handler returns.
websocket_endpoint_connect(c, token, chat, new_chat) ==
    /\ ws[c].pc = "none"
    /\ \A d \in Conns : d < c => ws[d].pc # "none"
    /\ LET check == AccessCheck(token, chat)
           w == [IdleWs EXCEPT !.state = "connecting", !.reject = check]
       IN  ws' = [ws EXCEPT ![c] =
                     IF check = "ok"
                     THEN [w EXCEPT !.pc = "accepting", !.user = token.sub,
                                    !.token_valid = token.valid,
                                    !.chat = chat, !.new_chat = new_chat]
                     ELSE [safe_close_websocket(w, 1008) EXCEPT !.pc = "done"]]
    /\ UNCHANGED <<dbVars, createVars, tasks_run, redis, cb, regVars, ws_out,
                   histVars>>

\* A connection_established frame that carries the suggestions of the chat
\* whatever new_chat says.
initMessage_AlwaysSuggestions(c) ==
    ControlFrame("connection_established", ws[c].chat,
                 IF ChatSuggestions[ws[c].chat] # <<>>
                 THEN <<ChatSuggestions[ws[c].chat]>> ELSE <<>>,
                 <<JsonString(loop_time)>>, "")

\* The connection_established frame of connection c.
initMessage(c) ==
    ControlFrame("connection_established", ws[c].chat,
                 IF ws[c].new_chat /\ ChatSuggestions[ws[c].chat] # <<>>
                 THEN <<ChatSuggestions[ws[c].chat]>> ELSE <<>>,
                 <<JsonString(loop_time)>>, "")

\* accept returns: the connection is registered and connection_established sent.
websocket_endpoint_accept(c) ==
    /\ ws[c].pc = "accepting"
    /\ active_connections' =
           Register(active_connections, ConnKey(ws[c].chat, ws[c].user), c)
    /\ last_activity' = RegisterActivity(active_connections, last_activity,
                                         ConnKey(ws[c].chat, ws[c].user), c)
    /\ UNCHANGED loop_time
    /\ ws' = [ws EXCEPT ![c].state = "connected", ![c].accepted = TRUE,
                        ![c].pc = "init", ![c].init_sends = @ + 1]
    /\ ws_out' = [ws_out EXCEPT ![c] = Append(@, initMessage(c))]
    /\ UNCHANGED <<dbVars, createVars, tasks_run, redis, cb, histVars>>

\* accept returns and the transport breaks before the first send: the
\* connection is registered, the send of connection_established raises inside
\* safe_send_json and the handler goes on.
websocket_endpoint_accept_broken(c) ==
    /\ ws[c].pc = "accepting"
    /\ Cardinality({d \in Conns : ws[d].broken}) < MaxBreaks
    /\ active_connections' =
           Register(active_connections, ConnKey(ws[c].chat, ws[c].user), c)
    /\ last_activity' = RegisterActivity(active_connections, last_activity,
                                         ConnKey(ws[c].chat, ws[c].user), c)
    /\ UNCHANGED loop_time
    /\ ws' = [ws EXCEPT ![c].state = "connected", ![c].accepted = TRUE,
                        ![c].broken = TRUE,
                        ![c].pc = "init", ![c].init_sends = @ + 1]
    /\ UNCHANGED <<dbVars, createVars, tasks_run, redis, cb, ws_out, histVars>>

\* A failed accept that registers the connection all the same.
websocket_endpoint_accept_fails_Registers(c) ==
    /\ ws[c].pc = "accepting"
    /\ active_connections' =
           Register(active_connections, ConnKey(ws[c].chat, ws[c].user), c)
    /\ last_activity' = RegisterActivity(active_connections, last_activity,
                                         ConnKey(ws[c].chat, ws[c].user), c)
    /\ UNCHANGED loop_time
    /\ ws' = [ws EXCEPT ![c].pc = "done", ![c].state = "disconnected"]
    /\ UNCHANGED <<dbVars, createVars, tasks_run, redis, cb, ws_out, histVars>>

\* accept raises: the handler returns.
websocket_endpoint_accept_fails(c) ==
    /\ ws[c].pc = "accepting"
    /\ ws' = [ws EXCEPT ![c].pc = "done", ![c].state = "disconnected"]
    /\ UNCHANGED <<dbVars, createVars, tasks_run, redis, cb, regVars, ws_out,
                   histVars>>

\* The send of connection_established has returned: the keep-alive task is
\* created and the receive loop entered.
websocket_endpoint_loop(c) ==
    /\ ws[c].pc = "init"
    /\ ws' = [ws EXCEPT ![c].pc = "receive", ![c].ping_task = TRUE]
    /\ UNCHANGED <<dbVars, createVars, tasks_run, redis, cb, regVars, ws_out,
                   histVars>>

\* The inbound text frames: text that is no JSON, JSON that is no object, and
\* objects by their "type" and "message_id" (0: none).
InboundFrame(json, type, id, timestamp) ==
    [json |-> json, type |-> type, message_id |-> id, timestamp |-> timestamp]

FrameInputs ==
    { InboundFrame("invalid", "", 0, <<>>),
      InboundFrame("array", "", 0, <<>>),
      InboundFrame("object", "ping", 0, <<>>),
      InboundFrame("object", "stream_request", 0, <<>>),
      InboundFrame("object", "get_suggestions", 0, <<>>),
      InboundFrame("object", "bogus", 0, <<>>) }

StreamRequest(id) == InboundFrame("object", "stream_request", id, <<>>)

\* The ping frames of a client: without "timestamp", and with the number 7.
PingInputs ==
    { InboundFrame("object", "ping", 0, <<>>),
      InboundFrame("object", "ping", 0, <<JsonNumber(7)>>) }

\* message_data.get("timestamp"): None when the key is absent.
DictGetTimestamp(frame) == IF frame.timestamp = <<>> THEN JsonNull ELSE frame.timestamp[1]

\* The reply of the receive loop to a frame it answers at once; the error
\* replies are objects with the one key "error".
Reply(c, frame) ==
    IF frame.json = "invalid"
    THEN ControlFrame("", "", <<>>, <<>>, "Invalid JSON format")
    ELSE IF frame.type = "ping"
    THEN ControlFrame("pong", "", <<>>, <<DictGetTimestamp(frame)>>, "")
    ELSE IF frame.type = "stream_request"
    THEN ControlFrame("", "", <<>>, <<>>, "Missing message_id")
    ELSE IF frame.type = "get_suggestions"
    THEN ControlFrame("suggestions", "", <<ChatSuggestions[ws[c].chat]>>, <<>>, "")
    ELSE ControlFrame("", "", <<>>, <<>>, "Unknown message type")

\* One pass of the receive loop on an inbound frame: message_data.get raises on
\* JSON that is no object, which ends the loop; a stream_request with a
\* message id issues the GET; every other frame is answered at once.
HandleFrame(c, frame) ==
    /\ ws[c].pc = "receive" /\ is_websocket_connected(c)
    /\ IF frame.json \notin {"invalid", "object"}
       THEN /\ ws' = [ws EXCEPT ![c].pc = "closing", ![c].ping_task = FALSE,
                                ![c].frame = frame, ![c].frames_read = @ + 1]
            /\ UNCHANGED ws_out
       ELSE IF frame.json = "object" /\ frame.type = "stream_request"
               /\ frame.message_id # 0
       THEN /\ ws' = [ws EXCEPT ![c].pc = "stream_get", ![c].frame = frame,
                                ![c].message_id = frame.message_id]
            /\ UNCHANGED ws_out
       ELSE /\ ws' = [ws EXCEPT ![c].frame = frame, ![c].frames_read = @ + 1]
            /\ ws_out' = safe_send_json(c, Reply(c, frame))
    /\ last_activity' = Touch(last_activity, ConnKey(ws[c].chat, ws[c].user))
    /\ UNCHANGED <<dbVars, createVars, tasks_run, redis, cb, active_connections, loop_time,
                   histVars>>

RECURSIVE Sent(_, _)
\* The number of frames of the given type sent so far to the connections 1..n.
Sent(n, type) ==
    IF n = 0 THEN 0
    ELSE Len(SelectSeq(ws_out[n], LAMBDA f : f.type = type)) + Sent(n - 1, type)

RECURSIVE TimedOut(_)
\* The timeouts of the receive wait so far on the connections 1..n.
TimedOut(n) == IF n = 0 THEN 0 ELSE ws[n].timeouts + TimedOut(n - 1)

RECURSIVE FramesRead(_)
\* The inbound frames read so far by the connections 1..n.
FramesRead(n) == IF n = 0 THEN 0 ELSE ws[n].frames_read + FramesRead(n - 1)

websocket_receive(c, frame) ==
    /\ FramesRead(MaxConns) < MaxFrames
    /\ HandleFrame(c, frame)

\* A stream_request frame is received: the GET is issued.
websocket_stream_request(c, id) ==
    /\ Sent(MaxConns, "stream_content") < MaxStreamRequests
    /\ HandleFrame(c, StreamRequest(id))

\* The GET of the stream_request reaches the store.
websocket_stream_get(c) ==
    /\ ws[c].pc = "stream_get"
    /\ ws' = [ws EXCEPT ![c].pc = "stream_send",
                        ![c].content = RedisRead(redis[ws[c].message_id])]
    /\ last_read' = [last_read EXCEPT ![ws[c].message_id] = RedisRead(redis[ws[c].message_id])]
    /\ UNCHANGED <<dbVars, createVars, tasks_run, redis, cb, regVars, ws_out,
                   arrived, chunk_log, final_writes, first_final, expiries, store_faults>>

\* The stream_content frame is sent.
websocket_stream_send(c) ==
    /\ ws[c].pc = "stream_send"
    /\ ws_out' = safe_send_json(c,
                     Frame("stream_content", ws[c].message_id, ws[c].content, <<>>))
    /\ ws' = [ws EXCEPT ![c].pc = "receive", ![c].content = <<>>]
    /\ UNCHANGED <<dbVars, createVars, tasks_run, redis, cb, regVars, histVars>>

\* A failing GET that ends the receive loop.
websocket_stream_get_fails_Closes(c) ==
    /\ ws[c].pc = "stream_get"
    /\ store_faults < MaxFaults
    /\ store_faults' = store_faults + 1
    /\ ws' = [ws EXCEPT ![c].pc = "closing", ![c].ping_task = FALSE]
    /\ UNCHANGED <<dbVars, createVars, tasks_run, redis, cb, regVars, ws_out,
                   arrived, chunk_log, last_read, final_writes, first_final, expiries>>

\* The GET of the stream_request raises: get_message_content_from_redis returns "".
websocket_stream_get_fails(c) ==
    /\ ws[c].pc = "stream_get"
    /\ store_faults < MaxFaults
    /\ store_faults' = store_faults + 1
    /\ ws' = [ws EXCEPT ![c].pc = "stream_send", ![c].content = <<>>]
    /\ UNCHANGED <<dbVars, createVars, tasks_run, redis, cb, regVars, ws_out,
                   arrived, chunk_log, last_read, final_writes, first_final, expiries>>

\* A timeout of the wait that ends the receive loop.
websocket_receive_timeout_Ends(c) ==
    /\ ws[c].pc = "receive" /\ is_websocket_connected(c)
    /\ TimedOut(MaxConns) < MaxTimeouts
    /\ ws' = [ws EXCEPT ![c].timeouts = @ + 1, ![c].pc = "closing",
                        ![c].ping_task = FALSE]
    /\ UNCHANGED <<dbVars, createVars, tasks_run, redis, cb, regVars, ws_out, histVars>>

\* wait_for raises TimeoutError after receive_timeout seconds without a frame:
\* the loop continues.
websocket_receive_timeout(c) ==
    /\ ws[c].pc = "receive" /\ is_websocket_connected(c)
    /\ TimedOut(MaxConns) < MaxTimeouts
    /\ ws' = [ws EXCEPT ![c].timeouts = @ + 1]
    /\ UNCHANGED <<dbVars, createVars, tasks_run, redis, cb, regVars, ws_out, histVars>>

\* One round of ping_client after its sleep: a ping frame with the loop time is
\* sent and the activity of the key refreshed.
ping_client(c) ==
    /\ ws[c].ping_task /\ is_websocket_connected(c)
    /\ Sent(MaxConns, "ping") < MaxPings
    /\ ws_out' = safe_send_json(c, ControlFrame("ping", "", <<>>,
                                                <<JsonNumber(loop_time)>>, ""))
    /\ last_activity' = Touch(last_activity, ConnKey(ws[c].chat, ws[c].user))
    /\ UNCHANGED <<dbVars, createVars, tasks_run, redis, cb, ws, active_connections,
                   loop_time, histVars>>

\* The clock of the event loop advances.
Tick ==
    /\ loop_time < MaxTicks
    /\ loop_time' = loop_time + 1
    /\ UNCHANGED <<dbVars, createVars, tasks_run, redis, cb, ws, active_connections,
                   ws_out, last_activity, histVars>>

\* The task of the handler is cancelled while it is suspended in an await:
\* CancelledError passes every "except Exception". In accept and in the send of
\* connection_established no finally block is entered yet and the handler ends
\* as it is; in the receive loop the finally block unregisters the connection
\* and closes it, the keep-alive task is not cancelled.
websocket_endpoint_cancelled(c) ==
    /\ ws[c].pc \in {"accepting", "init", "receive", "stream_get", "stream_send"}
    /\ Cardinality({d \in Conns : ws[d].cancelled}) < MaxCancels
    /\ IF ws[c].pc \in {"accepting", "init"}
       THEN /\ ws' = [ws EXCEPT ![c].pc = "done", ![c].cancelled = TRUE]
            /\ UNCHANGED <<active_connections, last_activity>>
       ELSE /\ active_connections' =
                   Unregister(active_connections, ConnKey(ws[c].chat, ws[c].user), c)
            /\ last_activity' = KeptActivity(active_connections', last_activity)
            /\ ws' = [ws EXCEPT ![c] =
                         [(IF is_websocket_connected(c) THEN safe_close_websocket(@, 1000)
                           ELSE @)
                             EXCEPT !.pc = "done", !.cancelled = TRUE]]
    /\ UNCHANGED <<dbVars, createVars, tasks_run, redis, cb, ws_out, loop_time, histVars>>

\* receive_text raises WebSocketDisconnect: the loop ends.
websocket_disconnect(c) ==
    /\ ws[c].pc = "receive" /\ is_websocket_connected(c)
    /\ ws' = [ws EXCEPT ![c].pc = "closing", ![c].state = "disconnected",
                        ![c].ping_task = FALSE]
    /\ UNCHANGED <<dbVars, createVars, tasks_run, redis, cb, regVars, ws_out,
                   histVars>>

\* The transport of an open connection breaks without a close handshake: sends
\* on it raise from now on.
TransportBreaks(c) ==
    /\ ws[c].state = "connected" /\ ~ws[c].broken /\ ws[c].close_code = 0
    /\ Cardinality({d \in Conns : ws[d].broken}) < MaxBreaks
    /\ ws' = [ws EXCEPT ![c].broken = TRUE]
    /\ UNCHANGED <<dbVars, createVars, tasks_run, redis, cb, regVars, ws_out,
                   histVars>>

\* The keep-alive task is cancelled and the finally block runs: the connection
\* is removed from the registry and, unless the client closed it, closed.
websocket_endpoint_finally(c) ==
    /\ ws[c].pc = "closing"
    /\ active_connections' =
           Unregister(active_connections, ConnKey(ws[c].chat, ws[c].user), c)
    /\ last_activity' = KeptActivity(active_connections', last_activity)
    /\ UNCHANGED loop_time
    /\ ws' = [ws EXCEPT ![c] =
                 [(IF is_websocket_connected(c) THEN safe_close_websocket(@, 1000) ELSE @)
                     EXCEPT !.pc = "done"]]
    /\ UNCHANGED <<dbVars, createVars, tasks_run, redis, cb, ws_out, histVars>>

\* --------------------------------------------------------- specifications
Init ==
    /\ messages = <<>>
    /\ http_log = <<>>
    /\ ai_calls = 0
    /\ tasks_run = 0
    /\ redis = [id \in MsgIds |-> NoEntry]
    /\ cb = [i \in CbIds |-> IdleCb]
    /\ ws = [c \in Conns |-> IdleWs]
    /\ active_connections = <<>>
    /\ ws_out = [c \in Conns |-> <<>>]
    /\ last_activity = <<>>
    /\ loop_time = 0
    /\ arrived = [id \in MsgIds |-> <<>>]
    /\ chunk_log = [id \in MsgIds |-> <<>>]
    /\ last_read = [id \in MsgIds |-> <<>>]
    /\ final_writes = [id \in MsgIds |-> 0]
    /\ first_final = [id \in MsgIds |-> MsgRow("c1", "ai", "pending", <<>>, <<>>)]
    /\ expiries = 0
    /\ store_faults = 0

CreateMessageRequest ==
    \E chat \in ChatIds, content \in ContentInputs, file_ids \in FileIdInputs,
       mode \in AiServiceModes :
        create_message(chat, content, file_ids, mode)

\* A message "Hi" without files while the generation service is up.
CreateMessageHi == create_message("c1", <<72, 105>>, <<>>, "http_200")

CallbackArrives ==
    \E i \in CbIds, chat \in ChatIds, mid \in TargetIds :
        \/ \E content \in FragmentInputs, is_final \in BOOLEAN, sources_data \in SourcesInputs :
              message_callback_start(i, chat, mid, required_keys, content, is_final,
                                     IF is_final THEN sources_data ELSE <<>>, <<>>)
        \/ \E keys \in IncompleteKeys :
              message_callback_start(i, chat, mid, keys, <<>>, FALSE, <<>>, <<>>)

\* The generation service posts the callbacks of one answer to the callback
\* address of the generated message, each once the previous one was answered.
CallbackArrivesInTurn ==
    /\ \A j \in CbIds : ~InFlight(j)
    /\ \E i \in CbIds, content \in FragmentInputs, is_final \in BOOLEAN,
          sources_data \in SourcesInputs :
            message_callback_start(i, "c1", 2, required_keys, content, is_final,
                                   IF is_final THEN sources_data ELSE <<>>, <<>>)

StoreSteps ==
    \E i \in CbIds :
        \/ save_message_chunk_to_redis_append(i)
        \/ save_message_chunk_to_redis_expire(i)
        \/ message_callback_read(i)

StoreFaults ==
    \E i \in CbIds :
        \/ save_message_chunk_to_redis_fails(i)
        \/ message_callback_read_fails(i)

CallbackSteps ==
    \E i \in CbIds :
        \/ message_callback_chunk_begin(i)
        \/ message_callback_finalize(i)

RelaySteps ==
    \E i \in CbIds :
        \/ message_callback_chunk_send(i)
        \/ message_callback_complete_send(i)

EntryExpires == \E id \in MsgIds : RedisKeyExpires(id)

WorkerTask ==
    \E id \in TargetIds, status \in {"processing", "failed"} :
        update_message_status(id, status)

\* The owner of chat "c1" opens connections to it and asks for the stream.
LiveSteps ==
    \/ \E c \in Viewers : websocket_endpoint_connect(c, OwnerToken, "c1", FALSE)
    \/ \E c \in Viewers : websocket_endpoint_accept(c)
    \/ \E c \in Viewers : websocket_endpoint_loop(c)
    \/ \E c \in Viewers, id \in TargetIds : websocket_stream_request(c, id)
    \/ \E c \in Viewers : websocket_stream_get(c)
    \/ \E c \in Viewers : websocket_stream_send(c)

\* Connection requests over all tokens, chats and new_chat flags.
ConnectionRequests ==
    \E c \in Viewers, token \in TokenInputs, chat \in ChatRequestIds, new_chat \in BOOLEAN :
        websocket_endpoint_connect(c, token, chat, new_chat)

Handshake ==
    \E c \in Conns :
        \/ websocket_endpoint_accept(c)
        \/ websocket_endpoint_accept_broken(c)
        \/ websocket_endpoint_accept_fails(c)
        \/ websocket_endpoint_loop(c)

InboundFrames == \E c \in Conns, frame \in FrameInputs : websocket_receive(c, frame)

SessionEnds ==
    \E c \in Conns :
        \/ websocket_disconnect(c)
        \/ websocket_endpoint_finally(c)

\* The owner and an admin open connections to chat "c1".
ViewersConnect ==
    \E c \in Conns, token \in {OwnerToken, AdminToken} :
        websocket_endpoint_connect(c, token, "c1", FALSE)

\* The owner opens connections to chat "c1".
OwnerConnects ==
    \E c \in Conns : websocket_endpoint_connect(c, OwnerToken, "c1", FALSE)

ViewersAccepted ==
    \E c \in Conns :
        \/ websocket_endpoint_accept(c)
        \/ websocket_endpoint_loop(c)

\* A frame that is JSON but no object arrives.
ArrayFrameArrives ==
    \E c \in Conns : websocket_receive(c, InboundFrame("array", "", 0, <<>>))

Breaks == \E c \in Conns : TransportBreaks(c)

\* Final callbacks of the generated message of chat "c1", each once the previous
\* one was answered, all with the fragment "a" and no citations.
CallbackArrivesPlain ==
    /\ \A j \in CbIds : ~InFlight(j)
    /\ Cardinality({j \in CbIds : cb[j].pc # "idle"}) < MaxBroadcasts
    /\ \E i \in CbIds : message_callback_start(i, "c1", 2, required_keys, <<97>>, TRUE, <<>>, <<>>)

\* Final callbacks of the generated message of chat "c1" with citation lists,
\* each once the previous one was answered.
CallbackArrivesCiting ==
    /\ \A j \in CbIds : ~InFlight(j)
    /\ \E i \in CbIds, content \in FragmentInputs, sources_data \in CitationInputs :
          message_callback_start(i, "c1", 2, required_keys, content, TRUE,
                                 sources_data, <<>>)

\* Callbacks of the generated message of chat "c1" with and without
\* suggestions, each once the previous one was answered.
CallbackArrivesSuggesting ==
    /\ \A j \in CbIds : ~InFlight(j)
    /\ Cardinality({j \in CbIds : cb[j].pc # "idle"}) < MaxBroadcasts
    /\ \E i \in CbIds, is_final \in BOOLEAN, suggestions \in SuggestionInputs :
          message_callback_start(i, "c1", 2, required_keys, <<97>>, is_final,
                                 <<>>, suggestions)

\* The owner opens single sessions on chat "c1".
OwnerViews == \E c \in Viewers : websocket_endpoint_connect(c, OwnerToken, "c1", FALSE)

\* Callbacks of the generated message of chat "c1" that are not final, all with
\* the fragment "П", each once the previous one was answered.
CallbackArrivesChunk ==
    /\ \A j \in CbIds : ~InFlight(j)
    /\ \E i \in CbIds :
          message_callback_start(i, "c1", 2, required_keys, <<1055>>, FALSE, <<>>, <<>>)

StoreWrites ==
    \E i \in CbIds :
        \/ save_message_chunk_to_redis_append(i)
        \/ save_message_chunk_to_redis_expire(i)

ChunkRelay ==
    \E i \in CbIds :
        \/ message_callback_chunk_begin(i)
        \/ message_callback_chunk_send(i)

\* One session of the owner on chat "c1" that asks for the stream of messages.
StreamSession ==
    \/ websocket_endpoint_connect(1, OwnerToken, "c1", FALSE)
    \/ websocket_endpoint_accept(1)
    \/ websocket_endpoint_loop(1)
    \/ \E id \in TargetIds : websocket_stream_request(1, id)
    \/ websocket_stream_get(1)
    \/ websocket_stream_get_fails(1)
    \/ websocket_stream_send(1)

\* Callbacks for any chat and message, with complete and incomplete bodies,
\* each once the previous one was answered.
CallbackArrivesChecked ==
    /\ \A j \in CbIds : ~InFlight(j)
    /\ \E i \in CbIds, chat \in ChatIds, mid \in TargetIds,
          keys \in SUBSET required_keys, is_final \in BOOLEAN :
            message_callback_start(i, chat, mid, keys, <<97>>, is_final, <<>>, <<>>)

PingFrames == \E c \in Conns, frame \in PingInputs : websocket_receive(c, frame)

Timeouts == \E c \in Conns : websocket_receive_timeout(c)

KeepAlive == \E c \in Conns : ping_client(c)

StreamFaults == \E c \in Viewers : websocket_stream_get_fails(c)

Cancels == \E c \in Conns : websocket_endpoint_cancelled(c)

Disconnects == \E c \in Conns : websocket_disconnect(c)

\* Callbacks relayed to a session of the owner while the chunk store fails.
NextOutage ==
    \/ CreateMessageHi
    \/ CallbackArrivesSuggesting
    \/ StoreSteps
    \/ StoreFaults
    \/ CallbackSteps
    \/ RelaySteps
    \/ OwnerViews
    \/ ViewersAccepted

SpecOutage == Init /\ [][NextOutage]_vars

\* Sessions of the owner whose transport breaks, the keep-alive task and the
\* clock.
NextPing ==
    \/ OwnerViews
    \/ ViewersAccepted
    \/ SessionEnds
    \/ Breaks
    \/ KeepAlive
    \/ Timeouts
    \/ Tick

SpecPing == Init /\ [][NextPing]_vars

\* Callbacks relayed to the connections of the owner while sessions end, by a
\* disconnect of the client or by a frame that ends the receive loop.
NextFanout ==
    \/ CreateMessageHi
    \/ CallbackArrivesPlain
    \/ StoreSteps
    \/ CallbackSteps
    \/ RelaySteps
    \/ OwnerConnects
    \/ ViewersAccepted
    \/ ArrayFrameArrives
    \/ SessionEnds

SpecFanout == Init /\ [][NextFanout]_vars

\* Final callbacks with citations, handled one after another and relayed to a
\* session of the owner.
NextCited ==
    \/ CreateMessageHi
    \/ CallbackArrivesCiting
    \/ StoreSteps
    \/ CallbackSteps
    \/ RelaySteps
    \/ OwnerViews
    \/ ViewersAccepted

SpecCited == Init /\ [][NextCited]_vars

\* Callbacks relayed to sessions of the owner whose transport breaks or whose
\* client disconnects, while the clock advances.
NextPublish ==
    \/ CreateMessageHi
    \/ CallbackArrivesPlain
    \/ StoreSteps
    \/ CallbackSteps
    \/ RelaySteps
    \/ OwnerViews
    \/ ViewersAccepted
    \/ Breaks
    \/ Disconnects
    \/ Tick

SpecPublish == Init /\ [][NextPublish]_vars

\* Message creation alone, over all its inputs.
SpecCreate == Init /\ [][CreateMessageRequest]_vars

\* Callbacks handled one after another, the chunk store failing and expiring.
NextInTurn ==
    \/ CreateMessageHi
    \/ CallbackArrivesInTurn
    \/ StoreSteps
    \/ StoreFaults
    \/ CallbackSteps
    \/ EntryExpires

SpecInTurn == Init /\ [][NextInTurn]_vars

\* Callbacks whose handling overlaps, relayed to live connections.
NextRelay ==
    \/ CreateMessageHi
    \/ CallbackArrives
    \/ StoreSteps
    \/ CallbackSteps
    \/ RelaySteps
    \/ LiveSteps

SpecRelay == Init /\ [][NextRelay]_vars

\* Callbacks and the worker's status task.
NextLifecycle ==
    \/ CreateMessageHi
    \/ CallbackArrives
    \/ StoreSteps
    \/ CallbackSteps
    \/ WorkerTask

SpecLifecycle == Init /\ [][NextLifecycle]_vars

\* One session from the connection request to its end, over all requests and
\* inbound frames.
NextSession ==
    \/ ConnectionRequests
    \/ Handshake
    \/ InboundFrames
    \/ SessionEnds

SpecSession == Init /\ [][NextSession]_vars

\* The connection registry under connections of the owner and of an admin that
\* come and go.
NextRegistry ==
    \/ ViewersConnect
    \/ Handshake
    \/ ArrayFrameArrives
    \/ SessionEnds

SpecRegistry == Init /\ [][NextRegistry]_vars

\* Callbacks relayed to the connections of the owner, some of them with a broken
\* transport.
NextBroadcast ==
    \/ CreateMessageHi
    \/ CallbackArrivesPlain
    \/ StoreSteps
    \/ CallbackSteps
    \/ RelaySteps
    \/ OwnerConnects
    \/ ViewersAccepted
    \/ Breaks

SpecBroadcast == Init /\ [][NextBroadcast]_vars

\* Callbacks relayed while the owner and an admin watch the conversation.
NextViewers ==
    \/ CreateMessageHi
    \/ CallbackArrivesPlain
    \/ StoreSteps
    \/ CallbackSteps
    \/ RelaySteps
    \/ ViewersConnect
    \/ ViewersAccepted

SpecViewers == Init /\ [][NextViewers]_vars

\* Sessions of the owner in the receive loop: pings of the client, timeouts of
\* the wait, the keep-alive task and the clock.
NextKeepAlive ==
    \/ OwnerViews
    \/ ViewersAccepted
    \/ PingFrames
    \/ Timeouts
    \/ KeepAlive
    \/ Tick

SpecKeepAlive == Init /\ [][NextKeepAlive]_vars

\* A viewer asks for the stream of a message while its entry is written, expires
\* and the store fails.
NextStream ==
    \/ CreateMessageHi
    \/ CallbackArrivesChunk
    \/ StoreWrites
    \/ ChunkRelay
    \/ EntryExpires
    \/ StreamSession

SpecStream == Init /\ [][NextStream]_vars

\* Sessions of the owner and the ways they end: disconnect, a frame that ends
\* the loop, a broken transport, cancellation of the handler.
NextTeardown ==
    \/ OwnerViews
    \/ Handshake
    \/ InboundFrames
    \/ SessionEnds
    \/ Breaks
    \/ Cancels
    \/ KeepAlive

SpecTeardown == Init /\ [][NextTeardown]_vars

\* Callbacks that pass or fail the checks of message_callback, handled one
\* after another.
NextChecks ==
    \/ CreateMessageHi
    \/ CallbackArrivesChecked
    \/ StoreSteps
    \/ CallbackSteps

SpecChecks == Init /\ [][NextChecks]_vars

\* Final callbacks with citations, handled one after another.
NextCitations ==
    \/ CreateMessageHi
    \/ CallbackArrivesCiting
    \/ StoreSteps
    \/ CallbackSteps

SpecCitations == Init /\ [][NextCitations]_vars

\* Callbacks with suggestions relayed to the connections of the owner.
NextSuggest ==
    \/ CreateMessageHi
    \/ CallbackArrivesSuggesting
    \/ StoreSteps
    \/ CallbackSteps
    \/ RelaySteps
    \/ OwnerConnects
    \/ ViewersAccepted

SpecSuggest == Init /\ [][NextSuggest]_vars

Next ==
    \/ CreateMessageRequest
    \/ CallbackArrives
    \/ StoreSteps
    \/ StoreFaults
    \/ CallbackSteps
    \/ RelaySteps
    \/ EntryExpires
    \/ WorkerTask
    \/ LiveSteps
    \/ ConnectionRequests
    \/ Handshake
    \/ InboundFrames
    \/ SessionEnds
    \/ Breaks
    \/ CallbackArrivesCiting
    \/ CallbackArrivesSuggesting
    \/ CallbackArrivesChunk
    \/ CallbackArrivesChecked
    \/ StoreWrites
    \/ ChunkRelay
    \/ OwnerViews
    \/ StreamSession
    \/ PingFrames
    \/ Timeouts
    \/ KeepAlive
    \/ Tick
    \/ StreamFaults
    \/ Cancels

Spec == Init /\ [][Next]_vars

\* ------------------------------------------------------------------ claims
Exists(id) == id \in 1..Len(messages)

\* C1: once a final callback has completed a message, a later final callback for
\* it leaves the row (content, status, citations) as the first one left it.
C1_DuplicateFinalKeepsRow ==
    \A id \in TargetIds :
        Exists(id) /\ final_writes[id] >= 1 /\ store_faults = 0 /\ expiries = 0
            => messages[id] = first_final[id]

CompleteFrames(c, id) ==
    SelectSeq(ws_out[c], LAMBDA f : f.type = "complete" /\ f.message_id = id)

\* C2: under every interleaving of the callbacks of one message at most one of
\* them performs the finalizing write and at most one complete event is relayed.
C2_FinalizedOnce ==
    \A id \in TargetIds :
        Exists(id) /\ messages[id].message_type = "ai" =>
            /\ final_writes[id] <= 1
            /\ \A c \in Conns : Len(CompleteFrames(c, id)) <= 1

\* Callback i is the answered final callback of a message whose other accepted
\* callbacks all came before it and were not final.
LastOfStream(i) ==
    /\ cb[i].pc = "done" /\ cb[i].code = 200 /\ cb[i].is_final
    /\ \A j \in CbIds \ {i} :
          /\ j > i => cb[j].pc = "idle"
          /\ j < i => cb[j].code = 404 \/ (cb[j].code = 200 /\ ~cb[j].is_final)

\* C3 as stated: callbacks handled in turn, only the last one final, the store
\* never failing: the row holds the concatenation of all fragments, completed.
C3_InTurnContent ==
    \A i \in CbIds :
        LastOfStream(i) /\ store_faults = 0 =>
            /\ messages[cb[i].mid].content = Concat(arrived[cb[i].mid])
            /\ messages[cb[i].mid].status = "completed"

\* C3 amended: the same, provided the entry of the message did not expire
\* between the first callback and the final read.
C3_InTurnContentNoExpiry ==
    \A i \in CbIds :
        LastOfStream(i) /\ store_faults = 0 /\ expiries = 0 =>
            /\ messages[cb[i].mid].content = Concat(arrived[cb[i].mid])
            /\ messages[cb[i].mid].status = "completed"

\* A stream of two fragments was finalized with no fault and no expiry.
C3_Witness ==
    \E i \in CbIds :
        /\ LastOfStream(i) /\ store_faults = 0 /\ expiries = 0
        /\ Len(arrived[cb[i].mid]) >= 2
        /\ Len(messages[cb[i].mid].content) >= 2

C6_FailureMarksFailed ==
    /\ ai_calls <= Len(http_log)
    /\ \A k \in 1..Len(http_log) :
          http_log[k].ai_message # 0 /\ http_log[k].mode # "http_200" =>
              /\ messages[http_log[k].ai_message].status = "failed"
              /\ messages[http_log[k].ai_message].content = FailedPlaceholder

\* C7: when the generation service would accept the request, create_message
\* answers without error, returns the user message it created and publishes the
\* status task that moves the generated message to processing.
C7_AcceptedReturnsUserMessage ==
    \A k \in 1..Len(http_log) :
        http_log[k].ai_message # 0 /\ http_log[k].mode = "http_200" =>
            /\ http_log[k].code = 200
            /\ http_log[k].returned = http_log[k].ai_message - 1
            /\ http_log[k].published = "processing"

RECURSIVE ChunksFrom(_, _, _)
\* The concatenated content of the chunk frames of message id in frames[p..].
ChunksFrom(frames, p, id) ==
    IF p > Len(frames) THEN <<>>
    ELSE (IF frames[p].type = "chunk" /\ frames[p].message_id = id
          THEN frames[p].content ELSE <<>>) \o ChunksFrom(frames, p + 1, id)

RECURSIVE ChunkSeq(_, _, _)
\* The contents of the chunk frames of message id in frames[p..], one per frame.
ChunkSeq(frames, p, id) ==
    IF p > Len(frames) THEN <<>>
    ELSE (IF frames[p].type = "chunk" /\ frames[p].message_id = id
          THEN <<frames[p].content>> ELSE <<>>) \o ChunkSeq(frames, p + 1, id)

\* C9: for a connection that was sent a stream_content snapshot of a message and
\* chunk events of it afterwards, snapshot and chunks together are the content
\* the chunk store holds once those chunks are relayed.
C9_SnapshotThenChunks ==
    \A c \in Conns, id \in TargetIds :
        \A p \in 1..Len(ws_out[c]) :
            /\ \A j \in CbIds : ~InFlight(j)
            /\ Exists(id) /\ messages[id].message_type = "ai"
            /\ ws_out[c][p].type = "stream_content" /\ ws_out[c][p].message_id = id
            /\ ChunkSeq(ws_out[c], p + 1, id) # <<>>
            => ws_out[c][p].content \o ChunksFrom(ws_out[c], p + 1, id)
                   = RedisRead(redis[id])

\* C10: a connection that was sent the chunk events of all fragments appended
\* for a message was sent them in the order of the appends.
C10_RelayInAppendOrder ==
    \A c \in Conns, id \in TargetIds :
        /\ Exists(id) /\ messages[id].message_type = "ai"
        /\ Len(ChunkSeq(ws_out[c], 1, id)) = Len(chunk_log[id])
        => ChunkSeq(ws_out[c], 1, id) = chunk_log[id]

\* The connections registered for a chat, under whichever key.
RegisteredFor(chat) ==
    {c \in Conns : \E key \in DOMAIN active_connections :
        key[1] = chat /\ \E n \in 1..Len(active_connections[key]) :
                            active_connections[key][n] = c}

\* Callback i is at the start of a broadcast.
AtBroadcast(i) == cb[i].pc \in {"chunk_begin", "write"}

\* C11: when a chunk or complete event is published for a conversation, every
\* open connection registered for the conversation, of the owner or of an admin,
\* is sent the event or is in the list the broadcast goes on to send to.
C11_EveryViewerIsSent ==
    [][\A i \in CbIds :
          AtBroadcast(i) /\ cb'[i] # cb[i] =>
              \A c \in RegisteredFor(cb[i].chat) :
                  is_websocket_connected(c) /\ ~SendRaises(c) =>
                      \/ ws_out'[c] # ws_out[c]
                      \/ \E n \in 1..Len(cb'[i].conns) : cb'[i].conns[n] = c]_vars

\* The connections a broadcast step of callback i iterates over, and its frame.
Iterated(i) ==
    IF AtBroadcast(i) THEN BroadcastSnapshot(ConnKey(cb[i].chat, ChatOwner[cb[i].chat]))
    ELSE cb[i].conns

FrameOf(i) ==
    IF cb[i].pc \in {"chunk_begin", "chunk_send"} THEN ChunkFrame(i) ELSE CompleteFrame(i)

\* C12: in a broadcast over several connections a send that raises neither stops
\* the broadcast nor raises to the caller: the step leaves the connection's
\* frames as they were and goes on with the rest of the list, and every
\* connection whose send does not raise is sent the event.
C12_FailedSendGoesOn ==
    [][\A i \in CbIds :
          /\ cb[i].pc \in {"chunk_begin", "chunk_send", "write", "complete_send"}
          /\ cb'[i] # cb[i]
          /\ Iterated(i) # <<>>
          => LET h == Head(Iterated(i))
             IN  /\ cb'[i].conns = Tail(Iterated(i))
                 /\ cb'[i].pc \in {"chunk_send", "complete_send"}
                 /\ cb'[i].code = 0
                 /\ IF is_websocket_connected(h) /\ ~SendRaises(h)
                    THEN ws_out'[h] = Append(ws_out[h], FrameOf(i))
                    ELSE ws_out'[h] = ws_out[h]]_vars

\* Two connections are registered under one key, the first with a broken
\* transport and without the chunk event the second was sent.
C12_Witness ==
    \E key \in DOMAIN active_connections :
        /\ Len(active_connections[key]) >= 2
        /\ ws[active_connections[key][1]].broken
        /\ Len(ChunkSeq(ws_out[active_connections[key][1]], 1, 2)) = 0
        /\ Len(ChunkSeq(ws_out[active_connections[key][2]], 1, 2)) = 1

\* C13: a broadcast for a key with no registered connection sends nothing and
\* raises nothing: the callback goes on to finalize when is_final is set and is
\* answered {"status": "success"}.
C13_NoSubscriberIsNoError ==
    [][\A i \in CbIds :
          AtBroadcast(i) /\ cb'[i] # cb[i] /\ Iterated(i) = <<>> =>
              /\ ws_out' = ws_out
              /\ IF cb[i].pc = "chunk_begin" /\ cb[i].is_final
                 THEN cb'[i].pc = "read" /\ cb'[i].code = 0
                 ELSE cb'[i].pc = "done" /\ cb'[i].code = 200
              /\ cb[i].pc = "write" =>
                    /\ messages'[cb[i].mid].status = "completed"
                    /\ messages'[cb[i].mid].content = cb[i].full_content]_vars

\* A final callback was answered success and completed the message while the
\* registry held no connection.
C13_Witness ==
    \E i \in CbIds :
        /\ cb[i].pc = "done" /\ cb[i].code = 200 /\ cb[i].is_final
        /\ active_connections = <<>>
        /\ \A c \in Conns : ws_out[c] = <<>>
        /\ messages[cb[i].mid].status = "completed"
        /\ final_writes[cb[i].mid] >= 1

\* The places (key, position) of the registry that hold connection c.
Places(c) ==
    {p \in UNION {{<<key, n>> : n \in 1..Len(active_connections[key])} :
                     key \in DOMAIN active_connections} :
        active_connections[p[1]][p[2]] = c}

\* C14: each connection occurs at most once in the registry, under one key and
\* once in its list, and registering a registered connection again under its
\* key leaves the registry as it is.
C14_ConnectionListedOnce ==
    \A c \in Conns :
        /\ Cardinality(Places(c)) <= 1
        /\ \A p \in Places(c) : Register(active_connections, p[1], c) = active_connections

\* Two connections are registered under one key.
C14_Witness ==
    \E key \in DOMAIN active_connections :
        /\ Len(active_connections[key]) = 2
        /\ active_connections[key][1] # active_connections[key][2]

\* C15: no key of the registry maps to an empty connection list.
C15_NoEmptyKey ==
    \A key \in DOMAIN active_connections : active_connections[key] # <<>>

\* The last connection of a key has been unregistered and the key is gone,
\* while another key still holds a connection.
C15_Witness ==
    /\ \E c \in Conns :
          /\ ws[c].pc = "done" /\ ws[c].accepted
          /\ ConnKey(ws[c].chat, ws[c].user) \notin DOMAIN active_connections
    /\ DOMAIN active_connections # {}

\* C16: a connection request whose token fails validation or carries no user id
\* is closed with code 1008 and never accepted.
C16_BadTokenClosed1008 ==
    \A c \in Conns :
        ws[c].reject \in {"invalid_token", "no_user_id"} =>
            /\ ws[c].close_code = 1008
            /\ ~ws[c].accepted

\* Something of a session exists for connection c: the accepted handshake, a
\* registry entry, the keep-alive task or an outbound frame.
Established(c) ==
    \/ ws[c].accepted
    \/ Places(c) # {}
    \/ ws[c].ping_task
    \/ ws[c].init_sends > 0
    \/ ws_out[c] # <<>>

\* C17: a session is established only for a valid token, an existing chat and
\* an existing user who owns the chat or is an admin; a request that fails a
\* check leaves no registry entry, no keep-alive task and no outbound frame.
C17_OnlyAuthorizedEstablished ==
    \A c \in Conns :
        /\ Established(c) =>
              /\ ws[c].token_valid
              /\ ws[c].chat \in ChatIds
              /\ ws[c].user \in UserIds
              /\ ChatOwner[ws[c].chat] = ws[c].user \/ is_admin[ws[c].user]
        /\ ws[c].reject \notin {"none", "ok"} => ~Established(c) /\ ws[c].pc = "done"

\* An admin who does not own the chat is registered and in the receive loop.
C17_Witness ==
    \E c \in Conns :
        /\ Places(c) # {} /\ ws[c].pc = "receive" /\ ws[c].ping_task
        /\ ws[c].user = "adm" /\ ChatOwner[ws[c].chat] # "adm"

\* C18: a registered connection has completed the handshake, an inbound frame is
\* read only from a registered connection, and a connection whose accept failed
\* is not registered.
C18_RegisteredAfterAccept ==
    [][\A c \in Conns :
          /\ Places(c)' # {} => ws'[c].accepted /\ ws'[c].state # "connecting"
          /\ ws'[c].frame # ws[c].frame \/ ws'[c].frames_read # ws[c].frames_read
                => Places(c) # {} /\ ws[c].accepted
          /\ ws[c].pc = "accepting" /\ ws'[c] # ws[c] /\ ~ws'[c].accepted
                => Places(c)' = {} /\ ws'[c].pc = "done"]_vars

\* A registered connection has read an inbound frame.
C18_Witness ==
    \E c \in Conns : Places(c) # {} /\ ws[c].accepted /\ ws[c].frames_read >= 1

Established_Frames(c) ==
    SelectSeq(ws_out[c], LAMBDA f : f.type = "connection_established")

\* C19: an accepted connection has been sent connection_established exactly
\* once, before any inbound frame is handled: the frame is the first of the
\* connection unless its send raised, it carries the chat id, and it carries
\* the suggestions of the chat exactly when new_chat is set and the chat has
\* suggestions.
C19_OneConnectionEstablished ==
    \A c \in Conns :
        /\ ws[c].accepted =>
              /\ ws[c].init_sends = 1
              /\ Len(Established_Frames(c)) = IF ws[c].broken THEN 0 ELSE 1
        /\ ws[c].frames_read > 0 \/ ws[c].pc \in {"stream_get", "stream_send"}
              => ws[c].init_sends = 1
        /\ Established_Frames(c) # <<>> =>
              /\ ws_out[c][1] = Established_Frames(c)[1]
              /\ ws_out[c][1].chat_id = ws[c].chat
              /\ ws_out[c][1].suggestions =
                     (IF ws[c].new_chat /\ ChatSuggestions[ws[c].chat] # <<>>
                      THEN <<ChatSuggestions[ws[c].chat]>> ELSE <<>>)

\* A connection opened with new_chat on a chat that has suggestions was sent
\* them and has handled an inbound frame.
C19_Witness ==
    \E c \in Conns :
        /\ ws[c].accepted /\ ws[c].new_chat /\ ws[c].frames_read >= 1
        /\ ws_out[c] # <<>>
        /\ ws_out[c][1].type = "connection_established"
        /\ ws_out[c][1].suggestions # <<>>

\* An inbound frame that is no well-formed request.
Malformed(f) ==
    \/ f.json # "object"
    \/ f.type \notin {"ping", "stream_request", "get_suggestions"}
    \/ f.type = "stream_request" /\ f.message_id = 0

\* C20: an inbound frame that is no well-formed request is answered with one
\* error frame and leaves the connection open and registered.
C20_MalformedFrameAnswered ==
    [][\A c \in Conns :
          /\ ws'[c].frames_read = ws[c].frames_read + 1
          /\ Malformed(ws'[c].frame)
          /\ ~ws[c].broken
          => /\ Len(ws_out'[c]) = Len(ws_out[c]) + 1
             /\ ws_out'[c][Len(ws_out'[c])].error # ""
             /\ ws'[c].pc = "receive"
             /\ Places(c)' # {}
             /\ ws'[c].close_code = 0]_vars

\* The last frame sent to connection c after a step.
LastSent(c) == ws_out[c][Len(ws_out[c])]

\* C21: a ping frame is answered with one pong frame whose timestamp is that of
\* the ping (null when the ping has none), the last activity of the
\* connection's key is set to the time of the receipt, and the connection stays
\* registered and in the receive loop.
C21_PingAnswered ==
    [][\A c \in Conns :
          /\ ws'[c].frames_read = ws[c].frames_read + 1
          /\ ws'[c].frame.json = "object" /\ ws'[c].frame.type = "ping"
          => LET key == ConnKey(ws[c].chat, ws[c].user)
             IN  /\ Len(ws_out'[c]) = Len(ws_out[c]) + 1
                 /\ SubSeq(ws_out'[c], 1, Len(ws_out[c])) = ws_out[c]
                 /\ LastSent(c)'.type = "pong"
                 /\ LastSent(c)'.timestamp =
                        (IF ws'[c].frame.timestamp = <<>> THEN <<JsonNull>>
                         ELSE ws'[c].frame.timestamp)
                 /\ key \in DOMAIN last_activity'
                 /\ last_activity'[key] = loop_time
                 /\ Places(c) # {} /\ Places(c)' = Places(c)
                 /\ ws'[c].pc = "receive"]_vars

\* A ping with the timestamp 7 was answered after the clock had advanced.
C21_Witness ==
    \E c \in Conns :
        /\ ws[c].frame.type = "ping" /\ ws[c].frame.timestamp = <<JsonNumber(7)>>
        /\ ws_out[c] # <<>>
        /\ LastSent(c).type = "pong" /\ LastSent(c).timestamp = <<JsonNumber(7)>>
        /\ loop_time >= 1
        /\ last_activity[ConnKey(ws[c].chat, ws[c].user)] = loop_time

\* C22: a stream_request with a message id is answered with one stream_content
\* frame for that id; its content is what the chunk store held when it was
\* read, the concatenation of the fragments appended to the entry, and is
\* empty when the store has no entry or the read fails; the connection stays
\* open, registered and in the receive loop.
C22_StreamRequestAnswered ==
    [][\A c \in Conns :
          /\ ws[c].pc = "stream_get" /\ ws'[c].pc # "stream_get" =>
                /\ ws'[c].pc = "stream_send"
                /\ ws'[c].content =
                       (IF store_faults' # store_faults \/ ~redis[ws[c].message_id].present
                        THEN <<>> ELSE Concat(chunk_log[ws[c].message_id]))
                /\ ws_out' = ws_out
          /\ ws[c].pc = "stream_send" /\ ws'[c].pc # "stream_send" =>
                /\ ws_out'[c] = Append(ws_out[c],
                                       Frame("stream_content", ws[c].message_id,
                                             ws[c].content, <<>>))
                /\ ws'[c].pc = "receive" /\ ws'[c].state = "connected"
                /\ ws'[c].close_code = 0
                /\ Places(c) # {} /\ Places(c)' = Places(c)]_vars

\* A stream_request for a message whose entry had expired was answered with
\* empty content.
C22_Witness ==
    \E c \in Conns :
        /\ expiries >= 1 /\ store_faults = 0
        /\ ws_out[c] # <<>>
        /\ LastSent(c).type = "stream_content" /\ LastSent(c).message_id = 2
        /\ LastSent(c).content = <<>>
        /\ ~redis[2].present

\* C23: a timeout of the receive wait sends nothing and leaves the connection
\* open, registered, with its keep-alive task and waiting in the receive loop.
C23_TimeoutGoesOn ==
    [][\A c \in Conns :
          ws'[c].timeouts = ws[c].timeouts + 1 =>
              /\ ws_out' = ws_out
              /\ ws'[c].pc = "receive" /\ ws'[c].state = "connected"
              /\ ws'[c].close_code = 0 /\ ws'[c].ping_task
              /\ Places(c) # {} /\ Places(c)' = Places(c)]_vars

\* A connection that read no frame has timed out twice and is in the receive
\* loop.
C23_Witness ==
    \E c \in Conns :
        /\ ws[c].timeouts >= 2 /\ ws[c].frames_read = 0
        /\ ws[c].pc = "receive" /\ Places(c) # {}

\* C24: the connection of a handler that has terminated is in no list of the
\* registry, whichever way the handler ended.
C24_UnregisteredAtEnd ==
    \A c \in Conns : ws[c].pc = "done" => Places(c) = {}

CloseCodes == {1000, 1008, 1011}

\* C25: websocket.close is called at most once for a connection, also when
\* safe_close_websocket is called again with any code; a second call changes
\* nothing and returns False, and a call on a connection that is recorded as
\* closed or is not connected calls no close and returns False.
C25_CloseAtMostOnce ==
    \A c \in Conns :
        /\ ws[c].close_calls <= 1
        /\ \A a \in CloseCodes, b \in CloseCodes :
              LET w1 == safe_close_websocket(ws[c], a)
                  w2 == safe_close_websocket(w1, b)
              IN  /\ w2.close_calls <= 1
                  /\ w2 = w1
                  /\ ~safe_close_websocket_result(w1)
                  /\ ws[c].in_connection_ids \/ ws[c].state # "connected" =>
                        /\ w1.close_calls = ws[c].close_calls
                        /\ w1.close_code = ws[c].close_code
                        /\ ~safe_close_websocket_result(ws[c])

\* The handler of a connection has ended and closed it once with code 1000.
C25_Witness ==
    \E c \in Conns :
        /\ ws[c].pc = "done" /\ ws[c].accepted
        /\ ws[c].close_calls = 1 /\ ws[c].close_code = 1000
        /\ ws[c].in_connection_ids

\* The stores a callback can write: rows, chunk store, frames, registry.
CallbackStores == <<messages, redis, ws_out, active_connections, arrived, chunk_log>>

\* C26: a callback is answered 404 when no message of that id exists under the
\* chat and 400 when the message exists and a required key is missing in the
\* body, and a callback answered so leaves rows, chunk store, frames and
\* registry as they were; a callback that goes on passed both checks.
C26_RejectedCallbackTouchesNothing ==
    [][/\ \A chat \in ChatIds, mid \in TargetIds, keys \in SUBSET required_keys :
             CallbackCheck(messages, chat, mid, keys) =
                 (IF ~(Exists(mid) /\ messages[mid].chat_id = chat) THEN 404
                  ELSE IF keys # required_keys THEN 400
                  ELSE 0)
       /\ \A i \in CbIds :
             /\ cb[i].pc = "idle" /\ cb'[i].pc = "done" =>
                   /\ cb'[i].code \in {400, 404}
                   /\ CallbackStores' = CallbackStores
             /\ cb[i].pc = "idle" /\ cb'[i].pc \notin {"idle", "done"} =>
                   /\ Exists(cb'[i].mid)
                   /\ messages[cb'[i].mid].chat_id = cb'[i].chat]_vars

\* One callback was answered 404 and another 400 while the message exists.
C26_Witness ==
    /\ Exists(2)
    /\ \E i \in CbIds, j \in CbIds :
          /\ cb[i].pc = "done" /\ cb[i].code = 404
          /\ cb[j].pc = "done" /\ cb[j].code = 400

\* A step of callback i sends a frame of the given type to some connection.
Relays(i, type) ==
    /\ cb'[i] # cb[i]
    /\ \E c \in Conns : ws_out'[c] # ws_out[c] /\ LastSent(c)'.type = type

\* C27: a complete event is sent only by a callback that has committed the row
\* as completed with the content it read, in the step of the commit or after
\* it; chunk events are sent only before the callback reads the content,
\* which it does once its chunk broadcast has no connection left, and a
\* callback that has committed sends no chunk any more.
C27_CompleteAfterCommit ==
    [][\A i \in CbIds :
          /\ Relays(i, "complete") =>
                /\ cb[i].pc \in {"write", "complete_send"}
                /\ cb[i].pc = "write" =>
                      /\ messages'[cb[i].mid].status = "completed"
                      /\ messages'[cb[i].mid].content = cb[i].full_content
                      /\ final_writes'[cb[i].mid] = final_writes[cb[i].mid] + 1
                /\ cb[i].pc = "complete_send" => final_writes[cb[i].mid] >= 1
          /\ Relays(i, "chunk") => cb[i].pc \in {"chunk_begin", "chunk_send"}
          /\ cb[i].pc # "read" /\ cb'[i].pc = "read" =>
                /\ cb[i].pc \in {"chunk_begin", "chunk_send"}
                /\ Iterated(i) = <<>>
          /\ cb[i].pc \in {"read", "write", "complete_send"} =>
                cb'[i].pc \in {"read", "write", "complete_send", "done"}]_vars

\* A connection was sent the chunk event and then the complete event of the
\* message, which is completed.
C27_Witness ==
    \E c \in Conns :
        \E p \in 1..Len(ws_out[c]), q \in 1..Len(ws_out[c]) :
            /\ p < q
            /\ ws_out[c][p].type = "chunk" /\ ws_out[c][p].message_id = 2
            /\ ws_out[c][q].type = "complete" /\ ws_out[c][q].message_id = 2
            /\ messages[2].status = "completed"

\* C28: the finalizing write of a callback with a non-empty citation list
\* leaves as the citations of the message one row for each citation of the list
\* that has an id and a source name, in the order of the list, and no row of an
\* earlier finalization besides.
C28_CitationsReplaced ==
    [][\A i \in CbIds :
          cb[i].pc = "write" /\ cb'[i] # cb[i] /\ cb[i].sources_data # <<>> =>
              LET kept == SelectSeq(cb[i].sources_data,
                                    LAMBDA r : r.id # <<>> /\ r.source # "")
                  rows == messages'[cb[i].mid].sources
              IN  /\ Len(rows) = Len(kept)
                  /\ \A k \in 1..Len(rows) :
                        /\ rows[k].title = kept[k].source
                        /\ rows[k].url = Str(kept[k].id[1])
                        /\ rows[k].content =
                               (IF kept[k].page # <<>> THEN <<Str(kept[k].page[1])>>
                                ELSE <<>>)]_vars

\* A second finalization has replaced the citations the first one stored.
C28_Witness ==
    /\ Exists(2)
    /\ final_writes[2] >= 2
    /\ first_final[2].sources # <<>>
    /\ messages[2].sources # <<>>
    /\ \A k \in 1..Len(messages[2].sources) :
          \A n \in 1..Len(first_final[2].sources) :
              messages[2].sources[k] # first_final[2].sources[n]

\* C29: the finalizing step of a callback whose body has suggestions leaves
\* them as the suggestions of the chat and sends them on the complete event.
C29_PayloadSuggestionsRelayed ==
    [][\A i \in CbIds :
          cb[i].pc = "write" /\ cb'[i] # cb[i] /\ cb[i].suggestions # <<>> =>
              /\ ChatSuggestions[cb[i].chat] = cb[i].suggestions
              /\ \A c \in Conns :
                    ws_out'[c] # ws_out[c] =>
                        /\ LastSent(c)'.type = "complete"
                        /\ LastSent(c)'.suggestions = <<cb[i].suggestions>>]_vars

\* The types of outbound frames.
OutboundTypes ==
    {"connection_established", "ping", "pong", "chunk", "complete", "stream_content",
     "suggestions"}

\* C30: every frame sent on a connection has a type of the list of outbound
\* frame types.
C30_OutboundFrameTypes ==
    \A c \in Conns :
        \A p \in 1..Len(ws_out[c]) : ws_out[c][p].type \in OutboundTypes

\* The inactivity threshold of the reaper, in steps of the clock.
InactivityThreshold == 1

\* The key has had no activity for longer than the inactivity threshold.
Stale(key) == loop_time - last_activity[key] > InactivityThreshold

\* C31: a registry key whose last activity is older than the inactivity
\* threshold is reaped: no such key is in the registry, and no connection
\* listed under it is left open.
C31_StaleKeyReaped ==
    \A key \in DOMAIN active_connections : ~Stale(key)

\* The keys of the registry that list connection c.
KeysOf(c) == {p[1] : p \in Places(c)}

\* The handler of connection c terminates in this step.
Ends(c) == ws[c].pc # "done" /\ ws'[c].pc = "done"

\* C32: when the session of a connection ends, its keep-alive task is
\* cancelled, the registry changes at most by the removal of that connection
\* (and of its key with it), and every other connection is left as it is:
\* registered where it was, in the same state, with its receive loop and its
\* keep-alive task as before.
C32_SessionEndIsolated ==
    [][\A c \in Conns :
          Ends(c) =>
              /\ ~ws'[c].ping_task
              /\ active_connections' \in
                    {active_connections,
                     Unregister(active_connections, ConnKey(ws[c].chat, ws[c].user), c)}
              /\ \A d \in Conns \ {c} : ws'[d] = ws[d] /\ KeysOf(d)' = KeysOf(d)]_vars

\* C33: a chunk store operation that fails while a callback is handled raises
\* no error: after the failed append the callback goes on to the chunk event
\* with the store as it was, the chunk event is sent to the connected
\* connection at the head of the key's list, and every accepted callback ends
\* with the answer {"status": "success"}.
C33_StoreOutageIsNoError ==
    [][\A i \in CbIds :
          /\ cb[i].pc \in {"append", "expire"} /\ store_faults' # store_faults
             /\ cb'[i] # cb[i] =>
                /\ cb'[i].pc = "chunk_begin" /\ cb'[i].code = 0
                /\ redis' = redis
          /\ cb[i].pc = "chunk_begin" /\ cb'[i] # cb[i] =>
                LET snapshot == BroadcastSnapshot(ConnKey(cb[i].chat, ChatOwner[cb[i].chat]))
                IN  snapshot # <<>> /\ is_websocket_connected(Head(snapshot))
                       /\ ~SendRaises(Head(snapshot)) =>
                          ws_out'[Head(snapshot)] =
                              Append(ws_out[Head(snapshot)], ChunkFrame(i))
          /\ InFlight(i) /\ cb'[i].pc = "done" => cb'[i].code = 200]_vars

\* A callback whose append failed was answered with success and its chunk
\* event reached the connection of the owner; the store has no entry.
C33_Witness ==
    /\ store_faults >= 1
    /\ ~redis[2].present /\ chunk_log[2] = <<>>
    /\ \E i \in CbIds : cb[i].pc = "done" /\ cb[i].code = 200 /\ cb[i].mid = 2
    /\ \E c \in Conns : \E p \in 1..Len(ws_out[c]) :
          ws_out[c][p].type = "chunk" /\ ws_out[c][p].message_id = 2

\* C34: the keep-alive task refreshes the last activity of a key only in a
\* round that sent a ping frame: a step that changes the last activity of a
\* key and is no step of a handler appends a ping frame to the frames of a
\* connection of that key.
C34_RefreshOnlyAfterPing ==
    [][ws' = ws /\ last_activity' # last_activity =>
          \E c \in Conns :
              /\ ws[c].ping_task
              /\ last_activity'[ConnKey(ws[c].chat, ws[c].user)] = loop_time
              /\ Len(ws_out'[c]) = Len(ws_out[c]) + 1
              /\ LastSent(c)'.type = "ping"]_vars

\* C35: a broadcast goes through the copy of the list it took at its start:
\* each step sends to the head of what is left of the copy and to no other
\* connection, whatever was registered since, and it attempts no send on a
\* connection that was closed by its handler.
C35_SnapshotFanout ==
    [][\A i \in CbIds :
          /\ cb[i].pc \in {"chunk_begin", "chunk_send", "write", "complete_send"}
          /\ cb'[i] # cb[i]
          /\ Iterated(i) # <<>>
          => LET h == Head(Iterated(i))
             IN  /\ cb'[i].conns = Tail(Iterated(i))
                 /\ \A c \in Conns \ {h} : ws_out'[c] = ws_out[c]
                 /\ SendAttempted(h) => ws[h].close_code = 0 /\ ws[h].pc # "done"]_vars

\* C36: the citations on the complete event a connection is sent correspond one
\* to one, in order, with the citations the same final callback persisted for
\* the message: as many, with the same title and the same reference.
C36_RelayedCitationsStored ==
    [][\A i \in CbIds :
          cb[i].pc = "write" /\ cb'[i] # cb[i] =>
              \A c \in Conns :
                  Len(ws_out'[c]) = Len(ws_out[c]) + 1 =>
                      LET relayed == LastSent(c)'.sources
                          stored == IF cb[i].sources_data # <<>>
                                    THEN messages'[cb[i].mid].sources ELSE <<>>
                      IN  /\ LastSent(c)'.type = "complete"
                          /\ Len(relayed) = Len(stored)
                          /\ \A k \in 1..Len(relayed) :
                                /\ relayed[k].id # <<>>
                                /\ stored[k].url = Str(relayed[k].id[1])
                                /\ stored[k].title = relayed[k].title]_vars

\* C37: an entry of the chunk store that exists carries an expiry, once the
\* save that appended to it has returned.
C37_EntryCarriesExpiry ==
    \A id \in MsgIds :
        redis[id].present /\ ~(\E i \in CbIds : cb[i].pc = "expire" /\ cb[i].mid = id)
            => redis[id].ttl

\* C38: the finalizing write stores the concatenation, in relay order, of the
\* fragments of the chunk events relayed for the message: what a connection
\* that was sent the chunk event of every callback accepted for the message has
\* received is what is stored.
C38_StoredIsRelayed ==
    [][\A i \in CbIds :
          cb[i].pc = "write" /\ cb'[i] # cb[i] =>
              \A c \in Conns :
                  ChunkSeq(ws_out[c], 1, cb[i].mid) = arrived[cb[i].mid] =>
                      messages'[cb[i].mid].content = ChunksFrom(ws_out[c], 1, cb[i].mid)]_vars

\* C39: no step of broadcast_message changes the connection registry: the keys,
\* the lists of connections and every last activity are after the step what
\* they were before, also when the connection the step came to was skipped as
\* disconnected or its send raised.
C39_BroadcastLeavesRegistry ==
    [][\A i \in CbIds :
          /\ cb[i].pc \in {"chunk_begin", "chunk_send", "write", "complete_send"}
          /\ cb'[i] # cb[i]
          => /\ active_connections' = active_connections
             /\ last_activity' = last_activity]_vars

\* A chunk broadcast has come to the one registered connection, whose send
\* raised or which was skipped as disconnected: it was sent no chunk event and
\* is still registered, with a last activity older than the clock.
C39_Witness ==
    \E i \in CbIds :
        /\ cb[i].pc = "chunk_send" /\ cb[i].conns = <<>>
        /\ \A d \in Conns \ {1} : ws[d].pc = "none"
        /\ KeysOf(1) = {ConnKey(cb[i].chat, ChatOwner[cb[i].chat])}
        /\ ws[1].broken \/ ws[1].state = "disconnected"
        /\ ChunkSeq(ws_out[1], 1, cb[i].mid) = <<>>
        /\ last_activity[ConnKey(cb[i].chat, ChatOwner[cb[i].chat])] < loop_time

====
